---- MODULE Spec2Model ----
(***************************************************************************)
(* Model of the text annotation tool (src/claude4.0sonnet_v03.py): the     *)
(* corpus held in st.session_state (text_passages, annotations), the       *)
(* operations on it, the citation matcher and the highlight renderers.     *)
(*                                                                         *)
(* Data representation                                                     *)
(*   - a Python str is a string; Len, SubSeq, Head, Tail and \o act on it  *)
(*     character by character;                                             *)
(*   - None and float NaN are PyNone and NaN, two strings that no str of   *)
(*     the model equals;                                                   *)
(*   - a dict key is tagged with its Python type: IntKey(0) is 0,          *)
(*     StrKey("x") is "x" (load_data can leave str keys behind);           *)
(*   - a pandas DataFrame is [columns |-> set of names, rows |-> sequence  *)
(*     of functions columns -> cell].  Row labels are always the default   *)
(*     RangeIndex (every frame the source builds is new, concatenated with *)
(*     ignore_index or reset_index'ed), so a label is a position.  Column  *)
(*     order and dict insertion order are not modelled.                    *)
(***************************************************************************)
EXTENDS Integers, Sequences, FiniteSets, TLC

VARIABLES
    text_passages,  \* st.session_state.text_passages : list of str
    annotations,    \* st.session_state.annotations   : dict key -> DataFrame
    call,           \* the last operation called, with its arguments
    ret,            \* what that call returned
    err,            \* the exception that call raised, or NoError
    ops             \* how many operations the session has seen

vars == <<text_passages, annotations, call, ret, err, ops>>

-----------------------------------------------------------------------------
(* Bounds of the model *)

\* The operations of one session.
MaxOps == 3

\* The longest citation and text the matcher is given.
MaxMatchLen == 2

\* The longest text and the longest citation the highlighters are given.
MaxTextLen == 3
MaxCitationLen == 2

-----------------------------------------------------------------------------
(* Python values *)

PyNone == "<None>"
NaN == "<NaN>"
NoError == "NoError"

RetNone == <<"NoneType">>
RetBool(b) == <<"bool", b>>
RetInt(n) == <<"int", n>>
RetStr(s) == <<"str", s>>

IntKey(i) == <<"int", i>>
StrKey(s) == <<"str", s>>

\* Python truthiness of a cell: None and "" are falsy, NaN (a float) is truthy.
Truthy(v) == v # PyNone /\ v # ""

\* The i-th character of s, counted from 1.
CharAt(s, i) == SubSeq(s, i, i)

\* The strings over alphabet of at most n characters.
RECURSIVE StringsUpTo(_, _)
StringsUpTo(alphabet, n) ==
    IF n = 0 THEN {""}
    ELSE LET shorter == StringsUpTo(alphabet, n - 1)
         IN  shorter \cup {s \o a : s \in shorter, a \in alphabet}

-----------------------------------------------------------------------------
(* pandas DataFrames *)

core_columns == {"Citation", "Metadata", "Annotation_Text"}

Row(c, m, a) == [Citation |-> c, Metadata |-> m, Annotation_Text |-> a]

DataFrame(cols, rows) == [columns |-> cols, rows |-> rows]

\* pd.DataFrame({'Citation': [''], 'Metadata': [''], 'Annotation_Text': ['']})
EmptyRowFrame == DataFrame(core_columns, <<Row("", "", "")>>)

\* A row widened to the columns cols, the cells it lacks being NaN.
Widen(row, cols) == [c \in cols |-> IF c \in DOMAIN row THEN row[c] ELSE NaN]

\* pd.concat([a, b], ignore_index=True)
Concat(a, b) ==
    LET cols == a.columns \cup b.columns
    IN  DataFrame(cols, [i \in 1..(Len(a.rows) + Len(b.rows)) |->
            IF i <= Len(a.rows) THEN Widen(a.rows[i], cols)
            ELSE Widen(b.rows[i - Len(a.rows)], cols)])

\* The sequence s without its element at the 0-based position pos.
RemoveAt(s, pos) ==
    [i \in 1..(Len(s) - 1) |-> IF i <= pos THEN s[i] ELSE s[i + 1]]

\* df[cols]
Project(df, cols) ==
    DataFrame(cols, [i \in 1..Len(df.rows) |-> [c \in cols |-> df.rows[i][c]]])

\* d[k] = v on a dict
Put(d, k, v) == [x \in DOMAIN d \cup {k} |-> IF x = k THEN v ELSE d[x]]

\* del d[k]
Del(d, k) == [x \in DOMAIN d \ {k} |-> d[x]]

EmptyDict == [x \in {} |-> {}]

-----------------------------------------------------------------------------
(* initialize_session_state: the default seed *)

SeedPassages ==
    << "Dies ist der erste Beispielabsatz. Er enthält grundlegende Informationen.",
       "Dieser zweite Absatz bietet ergänzende Details und Kontext zum Thema." >>

SeedAnnotations ==
    [k \in {IntKey(0), IntKey(1)} |->
        IF k = IntKey(0)
        THEN DataFrame(core_columns,
               << Row("Beispielabsatz",
                      "Author: Mustermann, Year: 2023, Page: 45",
                      "Diese Passage führt in das Thema ein und stellt die Grundlagen dar."),
                  Row("grundlegende Informationen",
                      "Author: Schmidt, Year: 2022, Chapter: 3",
                      "Der Begriff \"grundlegende Informationen\" bezieht sich auf Basisdaten.") >>)
        ELSE DataFrame(core_columns,
               << Row("ergänzende Details",
                      "Author: Weber, Year: 2024, Volume: 2, Page: 78",
                      "Dieser Absatz erweitert die Grundlagen um wichtige Kontextinformationen.") >>)]

\* A call: the operation, its arguments and the number of passages it finds.
Called(op, args) == [op |-> op, args |-> args, passages |-> Len(text_passages)]

initialize_session_state ==
    /\ text_passages = SeedPassages
    /\ annotations = SeedAnnotations
    /\ call = [op |-> "initialize_session_state", args |-> <<>>, passages |-> 0]
    /\ ret = RetNone
    /\ err = NoError
    /\ ops = 0

\* One more operation of the session, recorded as the last call.
Calls(op, args) ==
    /\ ops < MaxOps
    /\ ops' = ops + 1
    /\ call' = Called(op, args)

-----------------------------------------------------------------------------
(* add_annotation_row, remove_annotation_row *)

\* Rows a frame keeps after drop(index=row_index).reset_index(drop=True).
DropRow(rows, row_index) == RemoveAt(rows, row_index)

\* The guard of remove_annotation_row: len(frame) > row_index.
RowGuard(n, row_index) == n > row_index

add_annotation_row(passage_index) ==
    LET k == IntKey(passage_index)
    IN  /\ Calls("add_annotation_row", <<passage_index>>)
        /\ ret' = RetNone
        /\ UNCHANGED text_passages
        /\ IF k \notin DOMAIN annotations
           THEN /\ err' = "KeyError"
                /\ UNCHANGED annotations
           ELSE /\ err' = NoError
                /\ annotations' = Put(annotations, k, Concat(annotations[k], EmptyRowFrame))

remove_annotation_row(passage_index, row_index) ==
    LET k == IntKey(passage_index)
    IN  /\ Calls("remove_annotation_row", <<passage_index, row_index>>)
        /\ ret' = RetNone
        /\ UNCHANGED text_passages
        /\ IF k \notin DOMAIN annotations
           THEN /\ err' = "KeyError"
                /\ UNCHANGED annotations
           ELSE LET df == annotations[k]
                IN  IF RowGuard(Len(df.rows), row_index)
                    THEN IF row_index \in 0..(Len(df.rows) - 1)
                         THEN /\ err' = NoError
                              /\ annotations' =
                                    Put(annotations, k,
                                        DataFrame(df.columns, DropRow(df.rows, row_index)))
                         ELSE \* drop: the label is not in the index
                              /\ err' = "KeyError"
                              /\ UNCHANGED annotations
                    ELSE /\ err' = NoError
                         /\ UNCHANGED annotations

-----------------------------------------------------------------------------
(* add_text_passage, remove_text_passage *)

NewPassageText == "Neuer Textabsatz..."

\* A slip: the length itself taken as the new index.
NewIndex_Length(n) == n

\* new_index = len(text_passages) - 1, n being the length after the append.
NewIndex(n) == n - 1

\* What add_text_passage returns: it has no return statement.
AddReturn(new_index) == RetNone

add_text_passage ==
    /\ text_passages' = Append(text_passages, NewPassageText)
    /\ LET new_index == NewIndex(Len(text_passages'))
       IN  /\ annotations' = Put(annotations, IntKey(new_index), EmptyRowFrame)
           /\ ret' = AddReturn(new_index)
    /\ Calls("add_text_passage", <<>>)
    /\ err' = NoError

\* A slip: the last passage may be removed too.
RemoveGuard_NonEmpty(n) == n > 0

\* The guard of remove_text_passage: len(text_passages) > 1.
RemoveGuard(n) == n > 1

\* list.pop(index) accepts -len <= index < len.
PopInRange(n, index) == 0 - n <= index /\ index < n

\* The 0-based position list.pop(index) removes.
PopPosition(n, index) == IF index >= 0 THEN index ELSE n + index

\* A slip: the frames are not shifted down.
OldIndex_NoShift(i, index) == i

\* old_index = i if i < index else i + 1
OldIndex(i, index) == IF i < index THEN i ELSE i + 1

\* A slip: only the frames there are move, a position without one gets none.
Reindexed_FramesOnly(old, n, index) ==
    LET kept == IF IntKey(index) \in DOMAIN old THEN Del(old, IntKey(index)) ELSE old
        moved == {i \in 0..(n - 1) : IntKey(OldIndex(i, index)) \in DOMAIN kept}
    IN  [k \in {IntKey(i) : i \in moved} |-> kept[IntKey(OldIndex(k[2], index))]]

\* The annotations remove_text_passage builds for a list that has n passages left.
Reindexed(old, n, index) ==
    LET kept == IF IntKey(index) \in DOMAIN old THEN Del(old, IntKey(index)) ELSE old
    IN  [k \in {IntKey(i) : i \in 0..(n - 1)} |->
            IF IntKey(OldIndex(k[2], index)) \in DOMAIN kept
            THEN kept[IntKey(OldIndex(k[2], index))]
            ELSE EmptyRowFrame]

remove_text_passage(index) ==
    /\ Calls("remove_text_passage", <<index>>)
    /\ ret' = RetNone
    /\ IF RemoveGuard(Len(text_passages))
       THEN IF PopInRange(Len(text_passages), index)
            THEN /\ text_passages' =
                        RemoveAt(text_passages, PopPosition(Len(text_passages), index))
                 /\ annotations' = Reindexed(annotations, Len(text_passages) - 1, index)
                 /\ err' = NoError
            ELSE \* pop raises before anything is changed
                 /\ err' = "IndexError"
                 /\ UNCHANGED <<text_passages, annotations>>
       ELSE /\ err' = NoError
            /\ UNCHANGED <<text_passages, annotations>>

-----------------------------------------------------------------------------
(* str.lower, str.find, the `in` operator, str.replace *)

\* The cased letters the model knows, upper case and lower case at equal positions.
UpperLetters == "ABCDEFGHIJKLMNOPQRSTUVWXYZÄÖÜ"
LowerLetters == "abcdefghijklmnopqrstuvwxyzäöü"

\* The upper-case letters, as a set.
UpperSet == {CharAt(UpperLetters, i) : i \in 1..Len(UpperLetters)}

\* str.lower() of one character; a character with no lower-case form ("ß", ".",
\* a digit) is kept.
LowerChar(c) ==
    IF c \in UpperSet
    THEN CharAt(LowerLetters, CHOOSE i \in 1..Len(UpperLetters) : CharAt(UpperLetters, i) = c)
    ELSE c

\* s.lower()
RECURSIVE Lower(_)
Lower(s) == IF s = "" THEN "" ELSE LowerChar(Head(s)) \o Lower(Tail(s))

\* Whether sub is found in s at the 0-based offset pos.
MatchAt(s, sub, pos) ==
    /\ pos + Len(sub) <= Len(s)
    /\ SubSeq(s, pos + 1, pos + Len(sub)) = sub

\* s.find(sub): the least offset where sub is found, or -1.
Find(s, sub) ==
    LET found == {pos \in 0..(Len(s) - Len(sub)) : MatchAt(s, sub, pos)}
    IN  IF found = {} THEN 0 - 1
        ELSE CHOOSE pos \in found : \A q \in found : pos <= q

\* sub in s
StrIn(sub, s) == Find(s, sub) # 0 - 1

\* The text after a replaced occurrence, in which str.replace goes on replacing.
RestAfter(s, old, k) == SubSeq(s, k + Len(old) + 1, Len(s))

\* A slip: only the first occurrence of old gives way to new.
Replace_First(s, old, new) ==
    LET k == Find(s, old)
    IN  IF k = 0 - 1 THEN s
        ELSE SubSeq(s, 1, k) \o new \o RestAfter(s, old, k)

\* s.replace(old, new) for a non-empty old: every occurrence of old, found from
\* left to right and not overlapping the one before, gives way to new.
RECURSIVE Replace(_, _, _)
Replace(s, old, new) ==
    LET k == Find(s, old)
    IN  IF k = 0 - 1 THEN s
        ELSE SubSeq(s, 1, k) \o new \o Replace(RestAfter(s, old, k), old, new)

-----------------------------------------------------------------------------
(* check_citation_in_text, add_found_in_text_column *)

\* A slip: the text is searched as it is written.
SearchedText_AsWritten(text) == text

\* The text the citation is searched in: text.lower().
SearchedText(text) == Lower(text)

check_citation_in_text(citation, text) ==
    IF ~Truthy(citation) \/ ~Truthy(text)
    THEN FALSE
    ELSE StrIn(Lower(citation), SearchedText(text))

\* check_citation_in_text calls .lower() on a truthy citation: a NaN cell (a float)
\* has no such method.
CheckRaises(citation, text) == citation = NaN /\ Truthy(text)

\* The cells of the "Found in Text" column; the emoji that begins each is written
\* by its code point.
FoundYes == "[U+2705] Yes"
FoundNo == "[U+274C] No"

FoundCell(citation, text) ==
    IF check_citation_in_text(citation, text) THEN FoundYes ELSE FoundNo

\* The exception add_found_in_text_column raises on this frame, or NoError.
FoundColumnError(df, passage_text) ==
    IF "Citation" \notin df.columns THEN "KeyError"
    ELSE IF \E i \in 1..Len(df.rows) : CheckRaises(df.rows[i].Citation, passage_text)
         THEN "AttributeError"
         ELSE NoError

add_found_in_text_column(df, passage_text) ==
    LET cols == df.columns \cup {"Found in Text"}
    IN  DataFrame(cols, [i \in 1..Len(df.rows) |->
            [c \in cols |-> IF c = "Found in Text"
                            THEN FoundCell(df.rows[i].Citation, passage_text)
                            ELSE df.rows[i][c]]])

-----------------------------------------------------------------------------
(* main, the body of the loop over the passages: the text area and the      *)
(* annotation table of one passage                                          *)

\* What the user may type into a text area.
EditTexts == {"Ab"}

\* What the user may type into a Citation cell.
EditCells == {"a"}

\* st.text_area and the write back of its value.
edit_passage_text(passage_index, new_text) ==
    /\ passage_index \in 0..(Len(text_passages) - 1)
    /\ text_passages' = [text_passages EXCEPT ![passage_index + 1] = new_text]
    /\ Calls("edit_passage_text", <<passage_index>>)
    /\ ret' = RetNone
    /\ err' = NoError
    /\ UNCHANGED annotations

\* The tables st.data_editor can return for the table it is shown: the columns are
\* those shown (none can be added or removed); a row may be deleted, a row of
\* empty (None) cells may be added, a Citation cell may be retyped.
EditorTables(display) ==
    {display}
    \cup {DataFrame(display.columns, RemoveAt(display.rows, i)) :
            i \in 0..(Len(display.rows) - 1)}
    \cup {DataFrame(display.columns,
                    Append(display.rows, [c \in display.columns |-> PyNone]))}
    \cup {DataFrame(display.columns,
                    [display.rows EXCEPT ![i] = [@ EXCEPT !["Citation"] = v]]) :
            i \in 1..Len(display.rows), v \in EditCells}

\* A slip: the edited table is stored with the columns it is shown with.
StoredColumns_AsShown(edited) == edited

\* What is stored from the edited table: edited_annotations[core_columns].copy()
StoredColumns(edited) == Project(edited, core_columns)

\* The annotations with the frame of passage_index made to exist.
Ensured(passage_index) ==
    IF IntKey(passage_index) \in DOMAIN annotations
    THEN annotations
    ELSE Put(annotations, IntKey(passage_index), EmptyRowFrame)

\* The tables the editor may return for the table of passage p.
EditedTables(p) ==
    LET df == Ensured(p)[IntKey(p)]
    IN  IF FoundColumnError(df, text_passages[p + 1]) # NoError
        THEN {df}
        ELSE EditorTables(add_found_in_text_column(df, text_passages[p + 1]))

edit_annotations(passage_index, edited) ==
    LET k == IntKey(passage_index)
        ensured == Ensured(passage_index)
        passage_text == text_passages[passage_index + 1]
        raised == FoundColumnError(ensured[k], passage_text)
    IN  /\ passage_index \in 0..(Len(text_passages) - 1)
        /\ Calls("edit_annotations", <<passage_index>>)
        /\ ret' = RetNone
        /\ UNCHANGED text_passages
        /\ IF raised # NoError
           THEN /\ err' = raised
                /\ annotations' = ensured
           ELSE /\ err' = NoError
                /\ annotations' =
                      IF core_columns \subseteq edited.columns
                      THEN Put(ensured, k, StoredColumns(edited))
                      ELSE ensured

-----------------------------------------------------------------------------
(* load_data                                                                *)
(*                                                                          *)
(* A JSON text is modelled by what json.loads makes of it: a syntax error,  *)
(* or the parsed value.  An object keeps the order of its members.          *)

JsonInvalid == [kind |-> "invalid"]
JsonArray == [kind |-> "array"]
JsonObject(tp, an) == [kind |-> "object", text_passages |-> tp, annotations |-> an]

Absent == <<"absent">>
JsonList(items) == <<"array", items>>
JsonMapping(members) == <<"object", members>>
JsonString == <<"string">>

Digits == "0123456789"

IsDigit(c) == \E i \in 1..Len(Digits) : CharAt(Digits, i) = c

DigitValue(c) == (CHOOSE i \in 1..Len(Digits) : CharAt(Digits, i) = c) - 1

RECURSIVE DecimalValue(_)
DecimalValue(s) ==
    IF s = "" THEN 0
    ELSE 10 * DecimalValue(SubSeq(s, 1, Len(s) - 1)) + DigitValue(CharAt(s, Len(s)))

AllDigits(s) == s # "" /\ \A i \in 1..Len(s) : IsDigit(CharAt(s, i))

\* A slip: the member name is kept as the key.
ParsedKey_AsWritten(idx) == StrKey(idx)

\* int(idx) of a member name, and the name itself when int raises: digits with an
\* optional sign (the blanks and underscores int also accepts are not modelled).
ParsedKey(idx) ==
    IF AllDigits(idx) THEN IntKey(DecimalValue(idx))
    ELSE IF idx # "" /\ Head(idx) \in {"-", "+"} /\ AllDigits(Tail(idx))
         THEN IntKey(IF Head(idx) = "-" THEN 0 - DecimalValue(Tail(idx))
                     ELSE DecimalValue(Tail(idx)))
         ELSE StrKey(idx)

\* pd.DataFrame(records) of a list of dicts: the columns are all the keys, a cell
\* a record lacks is NaN.
FrameOfRecords(records) ==
    LET cols == UNION {DOMAIN records[i] : i \in 1..Len(records)}
    IN  DataFrame(cols, [i \in 1..Len(records) |-> Widen(records[i], cols)])

\* The loop of load_data over the members from the i-th on: the dict built and the
\* exception that ended the loop, if any (pd.DataFrame of a scalar: ValueError).
RECURSIVE LoadedItems(_, _, _)
LoadedItems(members, i, acc) ==
    IF i > Len(members) THEN [annotations |-> acc, err |-> NoError]
    ELSE IF members[i][2][1] # "array"
         THEN [annotations |-> acc, err |-> "ValueError"]
         ELSE LoadedItems(members, i + 1,
                          Put(acc, ParsedKey(members[i][1]),
                              FrameOfRecords(members[i][2][2])))

\* The annotations load_data leaves and the exception it lets through.
LoadedAnnotations(an) ==
    IF an = Absent THEN [annotations |-> EmptyDict, err |-> NoError]
    ELSE IF an[1] # "object" THEN [annotations |-> EmptyDict, err |-> "AttributeError"]
         ELSE LoadedItems(an[2], 1, EmptyDict)

\* A slip: every text is taken for parsed.
Decoded_Always(doc) == TRUE

\* json.loads(json_str) returns: the text is JSON.
Decoded(doc) == doc.kind # "invalid"

load_data(doc) ==
    /\ Calls("load_data", <<doc>>)
    /\ IF ~Decoded(doc)
       THEN \* json.JSONDecodeError is caught
            /\ ret' = RetBool(FALSE)
            /\ err' = NoError
            /\ UNCHANGED <<text_passages, annotations>>
       ELSE IF doc.kind # "object"
            THEN \* data.get: a list has no such method
                 /\ ret' = RetNone
                 /\ err' = "AttributeError"
                 /\ UNCHANGED <<text_passages, annotations>>
            ELSE LET loaded == LoadedAnnotations(doc.annotations)
                 IN  /\ text_passages' =
                            IF doc.text_passages = Absent THEN <<>>
                            ELSE doc.text_passages[2]
                     /\ annotations' = loaded.annotations
                     /\ err' = loaded.err
                     /\ ret' = IF loaded.err = NoError THEN RetBool(TRUE) ELSE RetNone

\* The JSON texts of the model: a syntax error; an array; an object without
\* members; passages without annotations; a key beyond the passages; what
\* save_data writes for two passages, with a field more in a record; a key that is
\* no number; annotations that are a list; records that are a string; two
\* passages with annotations for the first only; a record without Metadata and
\* Annotation_Text that has the column the table is shown with.
RecordA == Row("a", "", "")
RecordExtra == [Citation |-> "a", Metadata |-> "", Annotation_Text |-> "", Extra |-> "x"]
RecordShown == [c \in {"Citation", "Found in Text"} |-> IF c = "Citation" THEN "a" ELSE FoundNo]

JsonDocs ==
    { JsonInvalid,
      JsonArray,
      JsonObject(Absent, Absent),
      JsonObject(JsonList(<<"Ab">>), Absent),
      JsonObject(JsonList(<<"Ab">>),
                 JsonMapping(<< <<"0", JsonList(<<RecordA>>)>>,
                                <<"2", JsonList(<<>>)>> >>)),
      JsonObject(JsonList(<<"Ab", NewPassageText>>),
                 JsonMapping(<< <<"0", JsonList(<<RecordExtra>>)>>,
                                <<"1", JsonList(<<>>)>> >>)),
      JsonObject(JsonList(<<"Ab">>),
                 JsonMapping(<< <<"x", JsonList(<<RecordA>>)>> >>)),
      JsonObject(JsonList(<<"Ab">>), JsonList(<<>>)),
      JsonObject(JsonList(<<"Ab">>),
                 JsonMapping(<< <<"0", JsonList(<<RecordA>>)>>,
                                <<"1", JsonString>> >>)),
      JsonObject(JsonList(<<"Zz", "Ab">>),
                 JsonMapping(<< <<"0", JsonList(<<RecordA>>)>> >>)),
      JsonObject(JsonList(<<"Ab">>),
                 JsonMapping(<< <<"0", JsonList(<<RecordShown>>)>> >>)) }

-----------------------------------------------------------------------------
(* export_data, save_data *)

\* str(n) of an int.
RECURSIVE DecimalDigits(_)
DecimalDigits(n) ==
    IF n < 10 THEN CharAt(Digits, n + 1)
    ELSE DecimalDigits(n \div 10) \o CharAt(Digits, (n % 10) + 1)

IntString(n) == IF n < 0 THEN "-" \o DecimalDigits(0 - n) ELSE DecimalDigits(n)

\* The member name json.dumps writes for a key: an int in digits, a str as it is.
MemberName(k) == IF k[1] = "int" THEN IntString(k[2]) ELSE k[2]

\* export_df: the core columns of a frame that has them all, else the frame.
ExportColumns(df) == IF core_columns \subseteq df.columns THEN core_columns ELSE df.columns

\* export_df.to_dict('records')
ExportRecords(df) == Project(df, ExportColumns(df)).rows

export_data ==
    [text_passages |-> text_passages,
     annotations |-> [k \in DOMAIN annotations |-> ExportRecords(annotations[k])]]

\* The members of a dict one after another (the order of a dict is not modelled:
\* no two keys of a corpus have one member name, so load_data does not depend on it).
RECURSIVE MembersOf(_, _)
MembersOf(d, keys) ==
    IF keys = {} THEN <<>>
    ELSE LET k == CHOOSE x \in keys : TRUE
         IN  << <<MemberName(k), JsonList(d[k])>> >> \o MembersOf(d, keys \ {k})

\* json.dumps(data, ensure_ascii=False, indent=2), as json.loads reads it.
save_data ==
    JsonObject(JsonList(export_data.text_passages),
               JsonMapping(MembersOf(export_data.annotations,
                                     DOMAIN export_data.annotations)))

-----------------------------------------------------------------------------
(* highlight_citations, highlight_citations_for_export, and the passage as  *)
(* main shows it, export_word writes it and export_excel lays it out        *)

MarkOpen == "<mark style=\"background-color: #b9f6ca; padding: 2px 4px; border-radius: 3px;\">"
MarkClose == "</mark>"
SpanOpen == "<span style=\"color:green\">"
SpanClose == "</span>"
BoldMark == "**"

\* str(c).strip() is not empty (of the white space, the model knows the blank).
NonBlank(c) == \E k \in 1..Len(c) : CharAt(c, k) # " "

\* `c and str(c).strip()`
Kept(c) == Truthy(c) /\ NonBlank(c)

\* The citations of a passage: the kept cells of the Citation column of its frame,
\* none when the passage has no frame or the frame has no such column.
PassageCitations(anns, i) ==
    IF IntKey(i) \in DOMAIN anns /\ "Citation" \in anns[IntKey(i)].columns
    THEN SelectSeq([k \in 1..Len(anns[IntKey(i)].rows) |-> anns[IntKey(i)].rows[k].Citation],
                   Kept)
    ELSE <<>>

\* len(c) of a float raises TypeError: sorted(citations, key=len) of a NaN cell.
SortRaises(citations) == \E k \in 1..Len(citations) : citations[k] = NaN

\* sorted(citations, key=len, reverse=True): the longest first, citations of one
\* length in the order they had.
InsertByLength(sorted, c) ==
    LET k == Cardinality({i \in 1..Len(sorted) : Len(sorted[i]) >= Len(c)})
    IN  SubSeq(sorted, 1, k) \o <<c>> \o SubSeq(sorted, k + 1, Len(sorted))

RECURSIVE SortedByLength(_)
SortedByLength(citations) ==
    IF citations = <<>> THEN <<>>
    ELSE InsertByLength(SortedByLength(SubSeq(citations, 1, Len(citations) - 1)),
                        citations[Len(citations)])

\* The loop the three renderers share: each citation found in the text as it now
\* is, markers included, is replaced by itself between open and close.
RECURSIVE ReplaceEach(_, _, _, _)
ReplaceEach(highlighted, sorted, open, close) ==
    IF sorted = <<>> THEN highlighted
    ELSE LET citation == Head(sorted)
         IN  ReplaceEach(IF Truthy(citation) /\ StrIn(citation, highlighted)
                         THEN Replace(highlighted, citation, open \o citation \o close)
                         ELSE highlighted,
                         Tail(sorted), open, close)

highlight_citations(text, citations) ==
    ReplaceEach(text, SortedByLength(citations), MarkOpen, MarkClose)

highlight_citations_for_export(text, citations) ==
    ReplaceEach(text, SortedByLength(citations), SpanOpen, SpanClose)

\* The passage with its citations between ** and **, as export_excel marks it.
ExcelHighlighted(passage, citations) ==
    ReplaceEach(passage, SortedByLength(citations), BoldMark, BoldMark)

\* main, the passage as it is shown.
show_passage(passage_index) ==
    LET citations == PassageCitations(annotations, passage_index)
    IN  /\ call' = Called("show_passage", <<passage_index>>)
        /\ IF SortRaises(citations)
           THEN ret' = RetNone /\ err' = "TypeError"
           ELSE /\ ret' = RetStr(highlight_citations(text_passages[passage_index + 1],
                                                     citations))
                /\ err' = NoError
        /\ UNCHANGED <<text_passages, annotations, ops>>

\* A run of a paragraph, green or not.
Run(text, green) == [text |-> text, green |-> green]

\* The runs export_word makes of a marked passage: what re.finditer finds of
\* <span style="color:green">(.*?)</span> is green, the text between is not.
RECURSIVE Runs(_)
Runs(s) ==
    LET k == Find(s, SpanOpen)
        inner == SubSeq(s, k + Len(SpanOpen) + 1, Len(s))
        j == Find(inner, SpanClose)
    IN  IF k = 0 - 1 \/ j = 0 - 1
        THEN IF s # "" THEN <<Run(s, FALSE)>> ELSE <<>>
        ELSE (IF k > 0 THEN <<Run(SubSeq(s, 1, k), FALSE)>> ELSE <<>>)
             \o <<Run(SubSeq(inner, 1, j), TRUE)>>
             \o Runs(SubSeq(inner, j + Len(SpanClose) + 1, Len(inner)))

\* A cell in an f-string.
Str(v) == IF v = PyNone THEN "None" ELSE IF v = NaN THEN "nan" ELSE v

\* row.get(column, '')
Get(row, column) == IF column \in DOMAIN row THEN row[column] ELSE ""

Paragraph(style, runs) == [style |-> style, runs |-> runs]

Bullet(label, v) == Paragraph("List Bullet", <<Run(label \o Str(v), FALSE)>>)

\* annotations.get(i, pd.DataFrame())
FrameOf(anns, i) ==
    IF IntKey(i) \in DOMAIN anns THEN anns[IntKey(i)] ELSE DataFrame({}, <<>>)

\* The three bullets of each row of a frame, from the k-th row on.
RECURSIVE Bullets(_, _)
Bullets(rows, k) ==
    IF k > Len(rows) THEN <<>>
    ELSE << Bullet("  Citation: ", Get(rows[k], "Citation")),
            Bullet("  Metadata: ", Get(rows[k], "Metadata")),
            Bullet("  Annotation: ", Get(rows[k], "Annotation_Text")) >>
         \o Bullets(rows, k + 1)

\* The paragraphs of the document, from the passage of index i on.
RECURSIVE WordParagraphs(_, _, _)
WordParagraphs(passages, anns, i) ==
    IF i >= Len(passages) THEN <<>>
    ELSE << Paragraph("Normal",
                      Runs(highlight_citations_for_export(passages[i + 1],
                                                          PassageCitations(anns, i)))) >>
         \o Bullets(FrameOf(anns, i).rows, 1)
         \o << Paragraph("Normal", <<>>) >>
         \o WordParagraphs(passages, anns, i + 1)

\* Some passage has a NaN among its citations.
ExportRaises(passages, anns) ==
    \E i \in 0..(Len(passages) - 1) : SortRaises(PassageCitations(anns, i))

export_word ==
    /\ call' = Called("export_word", <<>>)
    /\ IF ExportRaises(text_passages, annotations)
       THEN ret' = RetNone /\ err' = "TypeError"
       ELSE /\ ret' = <<"docx", WordParagraphs(text_passages, annotations, 0)>>
            /\ err' = NoError
    /\ UNCHANGED <<text_passages, annotations, ops>>

SheetRow(text, c, m, a) ==
    [Text |-> text, Citation |-> c, Metadata |-> m, Annotation_Text |-> a]

\* A slip: no frame is taken for empty.
Empty_Never(annots) == FALSE

\* annots.empty: the frame has no row or no column.
Empty(annots) == annots.rows = <<>> \/ annots.columns = {}

\* The rows export_excel builds, from the passage of index i on: one row for a
\* passage without annotations, else one row for each, the marked passage in all.
RECURSIVE SheetRows(_, _, _)
SheetRows(passages, anns, i) ==
    IF i >= Len(passages) THEN <<>>
    ELSE LET annots == FrameOf(anns, i)
             highlighted_passage ==
                 ExcelHighlighted(passages[i + 1], PassageCitations(anns, i))
         IN  (IF Empty(annots)
              THEN << SheetRow(highlighted_passage, "", "", "") >>
              ELSE [k \in 1..Len(annots.rows) |->
                       SheetRow(highlighted_passage,
                                Get(annots.rows[k], "Citation"),
                                Get(annots.rows[k], "Metadata"),
                                Get(annots.rows[k], "Annotation_Text"))])
             \o SheetRows(passages, anns, i + 1)

\* export_excel up to the frame of rows it hands to the workbook writer.
export_excel ==
    /\ call' = Called("export_excel", <<>>)
    /\ IF ExportRaises(text_passages, annotations)
       THEN ret' = RetNone /\ err' = "TypeError"
       ELSE /\ ret' = <<"xlsx", SheetRows(text_passages, annotations, 0)>>
            /\ err' = NoError
    /\ UNCHANGED <<text_passages, annotations, ops>>

-----------------------------------------------------------------------------
(* import_word *)

\* s.strip() (of the white space, the model knows the blank).
RECURSIVE Strip(_)
Strip(s) ==
    IF s = "" THEN ""
    ELSE IF Head(s) = " " THEN Strip(Tail(s))
    ELSE IF CharAt(s, Len(s)) = " " THEN Strip(SubSeq(s, 1, Len(s) - 1))
    ELSE s

\* s.startswith(prefix)
StartsWith(s, prefix) == Len(prefix) <= Len(s) /\ SubSeq(s, 1, Len(prefix)) = prefix

\* text[len(prefix):].strip()
AfterPrefix(text, prefix) == Strip(SubSeq(text, Len(prefix) + 1, Len(text)))

\* para.text: the text of the runs of a paragraph.
RECURSIVE ParaText(_)
ParaText(runs) == IF runs = <<>> THEN "" ELSE Head(runs).text \o ParaText(Tail(runs))

\* A slip: the frame is made of the annotations collected, be they none.
FrameOfAnnots_AsCollected(current_annots) == DataFrame(core_columns, current_annots)

\* The frame import_word stores for a passage: its annotations when there are
\* some, else one row of empty cells.
FrameOfAnnots(current_annots) ==
    IF current_annots # <<>> THEN DataFrame(core_columns, current_annots)
    ELSE EmptyRowFrame

\* What import_word holds before it reads a paragraph.
ImportStart ==
    [passages |-> <<>>, annotations |-> EmptyDict, current_passage |-> PyNone,
     current_annots |-> <<>>]

\* current_annots[-1][field] = value, when there is a last annotation.
SetLast(current_annots, field, value) ==
    IF current_annots = <<>> THEN current_annots
    ELSE [current_annots EXCEPT ![Len(current_annots)] = [@ EXCEPT ![field] = value]]

\* One turn of the loop of import_word over the paragraphs.
ImportParagraph(st, para) ==
    LET text == Strip(ParaText(para.runs))
    IN  IF text = "" THEN st
        ELSE IF ~StartsWith(para.style, "List")
        THEN [passages |-> Append(st.passages, text),
              annotations |->
                  IF st.current_passage # PyNone
                  THEN Put(st.annotations, IntKey(Len(st.passages) - 1),
                           FrameOfAnnots(st.current_annots))
                  ELSE st.annotations,
              current_passage |-> text,
              current_annots |->
                  IF st.current_passage # PyNone THEN <<>> ELSE st.current_annots]
        ELSE IF StartsWith(text, "Citation:")
        THEN [st EXCEPT !.current_annots =
                 Append(@, Row(AfterPrefix(text, "Citation:"), "", ""))]
        ELSE IF StartsWith(text, "Metadata:")
        THEN [st EXCEPT !.current_annots =
                 SetLast(@, "Metadata", AfterPrefix(text, "Metadata:"))]
        ELSE IF StartsWith(text, "Annotation:")
        THEN [st EXCEPT !.current_annots =
                 SetLast(@, "Annotation_Text", AfterPrefix(text, "Annotation:"))]
        ELSE st

\* The loop of import_word from the k-th paragraph on.
RECURSIVE ImportParagraphs(_, _, _)
ImportParagraphs(st, paragraphs, k) ==
    IF k > Len(paragraphs) THEN st
    ELSE ImportParagraphs(ImportParagraph(st, paragraphs[k]), paragraphs, k + 1)

\* The places a match of \[(\d+)\] ends at, for one that begins at i.
NoteEnds(text, i) ==
    {j \in (i + 2)..Len(text) :
        /\ CharAt(text, i) = "["
        /\ CharAt(text, j) = "]"
        /\ \A k \in (i + 1)..(j - 1) : IsDigit(CharAt(text, k))}

\* re.findall(r'\[(\d+)\]', text) from the position i on: the digits of each
\* match, in the order of the matches.
RECURSIVE NotesFrom(_, _)
NotesFrom(text, i) ==
    IF i > Len(text) THEN <<>>
    ELSE IF NoteEnds(text, i) = {} THEN NotesFrom(text, i + 1)
    ELSE LET j == CHOOSE e \in NoteEnds(text, i) : TRUE
         IN  <<SubSeq(text, i + 1, j - 1)>> \o NotesFrom(text, j + 1)

\* The stripped texts of the paragraphs that begin with the note and a blank, from
\* the k-th paragraph on.
RECURSIVE NoteParagraphs(_, _, _)
NoteParagraphs(note, paragraphs, k) ==
    IF k > Len(paragraphs) THEN <<>>
    ELSE LET text == Strip(ParaText(paragraphs[k].runs))
         IN  (IF StartsWith(text, note \o " ") THEN <<text>> ELSE <<>>)
             \o NoteParagraphs(note, paragraphs, k + 1)

\* The same for each of the notes, from the n-th on.
RECURSIVE NotesParagraphs(_, _, _)
NotesParagraphs(notes, paragraphs, n) ==
    IF n > Len(notes) THEN <<>>
    ELSE NoteParagraphs(notes[n], paragraphs, 1) \o NotesParagraphs(notes, paragraphs, n + 1)

\* The list metadata the fallback collects, from the k-th paragraph on.
RECURSIVE FootnoteMetadata(_, _)
FootnoteMetadata(paragraphs, k) ==
    IF k > Len(paragraphs) THEN <<>>
    ELSE LET text == ParaText(paragraphs[k].runs)
         IN  (IF Strip(text) # ""
              THEN NotesParagraphs(NotesFrom(text, 1), paragraphs, 1)
              ELSE <<>>)
             \o FootnoteMetadata(paragraphs, k + 1)

\* The annotations the fallback gives the passages: one record each, its Metadata
\* the entry of the list at the position of the passage, if there is one.
FootnoteAnnotations(passages, metadata) ==
    [k \in {IntKey(i) : i \in 0..(Len(passages) - 1)} |->
        DataFrame(core_columns,
                  << Row("", IF k[2] < Len(metadata) THEN metadata[k[2] + 1] ELSE "", "") >>)]

\* if not annotations: the fallback is taken when the dict is empty.
FallbackTaken(annotations_read) == annotations_read = EmptyDict

\* import_word of a document: the passages and the annotations it returns.
import_word(paragraphs) ==
    LET st == ImportParagraphs(ImportStart, paragraphs, 1)
        stored == IF st.current_passage # PyNone
                  THEN Put(st.annotations, IntKey(Len(st.passages) - 1),
                           FrameOfAnnots(st.current_annots))
                  ELSE st.annotations
    IN  [passages |-> st.passages,
         annotations |->
             IF FallbackTaken(stored)
             THEN FootnoteAnnotations(st.passages, FootnoteMetadata(paragraphs, 1))
             ELSE stored]

-----------------------------------------------------------------------------
(* import_excel, of a sheet as pd.read_excel reads it *)

\* A cell as pd.read_excel returns it: an empty cell (written for "", None and
\* NaN) is NaN.
ReadCell(v) == IF v = "" \/ v = PyNone \/ v = NaN THEN NaN ELSE v

\* The frame pd.read_excel returns for the rows written.
ReadSheet(rows) ==
    [k \in 1..Len(rows) |-> [c \in DOMAIN rows[k] |-> ReadCell(rows[k][c])]]

\* The characters of the model in the order of their code points.
CodePoints ==
    " !#$%&'()*+,-./0123456789:;<=>?@ABCDEFGHIJKLMNOPQRSTUVWXYZ[]^_abcdefghijklmnopqrstuvwxyz{|}~ÄÖÜßäöü"

CodePoint(c) == CHOOSE i \in 1..Len(CodePoints) : CharAt(CodePoints, i) = c

\* a < b on str: by the first character they differ in, else by length.
StrLess(a, b) ==
    LET n == IF Len(a) < Len(b) THEN Len(a) ELSE Len(b)
        differ == {i \in 1..n : CharAt(a, i) # CharAt(b, i)}
    IN  IF differ = {} THEN Len(a) < Len(b)
        ELSE LET i == CHOOSE x \in differ : \A y \in differ : x <= y
             IN  CodePoint(CharAt(a, i)) < CodePoint(CharAt(b, i))

\* The keys of df.groupby('Text') in the order of the groups: sorted, NaN left out.
RECURSIVE SortedTexts(_)
SortedTexts(texts) ==
    IF texts = {} THEN <<>>
    ELSE LET least == CHOOSE t \in texts : \A u \in texts \ {t} : StrLess(t, u)
         IN  <<least>> \o SortedTexts(texts \ {least})

GroupKeys(sheet) ==
    SortedTexts({sheet[k].Text : k \in 1..Len(sheet)} \ {NaN})

\* The rows of a group, in the order of the sheet, cut down to the core columns.
GroupRows(sheet, text) ==
    LET at == {k \in 1..Len(sheet) : sheet[k].Text = text}
        nth(j) == CHOOSE k \in at : Cardinality({x \in at : x < k}) = j - 1
    IN  [j \in 1..Cardinality(at) |->
            Row(sheet[nth(j)].Citation, sheet[nth(j)].Metadata,
                sheet[nth(j)].Annotation_Text)]

\* df.columns of the sheet read: the columns of its rows (those of a sheet
\* without rows do not matter to import_excel, there being no row to loop over).
SheetColumns(sheet) == IF sheet = <<>> THEN {} ELSE DOMAIN sheet[1]

\* group[['Citation', 'Metadata', 'Annotation_Text']] raises KeyError: there is a
\* group, and the sheet lacks one of the three columns.
GroupColumnsMissing(sheet) ==
    /\ GroupKeys(sheet) # <<>>
    /\ ~(core_columns \subseteq SheetColumns(sheet))

\* The fallback of import_excel: every row a passage of its own, with one record.
FallbackPassages(sheet) == [k \in 1..Len(sheet) |-> Str(Get(sheet[k], "Text"))]

FallbackAnnotations(sheet) ==
    [k \in {IntKey(i) : i \in 0..(Len(sheet) - 1)} |->
        DataFrame(core_columns,
                  << Row(Get(sheet[k[2] + 1], "Citation"),
                         Get(sheet[k[2] + 1], "Metadata"),
                         Get(sheet[k[2] + 1], "Annotation_Text")) >>)]

\* import_excel of a sheet: the passages and annotations it returns, or the
\* exception it raises.
import_excel(sheet) ==
    IF "Text" \in SheetColumns(sheet)
    THEN IF GroupColumnsMissing(sheet)
         THEN [passages |-> <<>>, annotations |-> EmptyDict, err |-> "KeyError"]
         ELSE LET keys == GroupKeys(sheet)
              IN  [passages |-> keys,
                   annotations |->
                       [k \in {IntKey(i) : i \in 0..(Len(keys) - 1)} |->
                           DataFrame(core_columns, GroupRows(sheet, keys[k[2] + 1]))],
                   err |-> NoError]
    ELSE [passages |-> FallbackPassages(sheet),
          annotations |-> FallbackAnnotations(sheet),
          err |-> NoError]

-----------------------------------------------------------------------------
(* The corpus and its operations *)

\* The indexes remove_text_passage is called with: those list.pop accepts, and
\* one beyond either end.
PopIndexes == (0 - Len(text_passages) - 1)..Len(text_passages)

\* The passages an operation on one passage is called for.
PassageIndexes == 0..(Len(text_passages) - 1)

\* The rows remove_annotation_row is called with: those of the frame, and one beyond
\* either end.
RowIndexes(p) ==
    IF IntKey(p) \in DOMAIN annotations
    THEN (0 - 1)..Len(annotations[IntKey(p)].rows)
    ELSE {0}

Init == initialize_session_state

Next ==
    \/ add_text_passage
    \/ \E index \in PopIndexes : remove_text_passage(index)
    \/ \E p \in PassageIndexes : add_annotation_row(p)
    \/ \E p \in PassageIndexes : \E row \in RowIndexes(p) : remove_annotation_row(p, row)
    \/ \E p \in PassageIndexes, t \in EditTexts : edit_passage_text(p, t)
    \/ \E p \in PassageIndexes : \E edited \in EditedTables(p) : edit_annotations(p, edited)
    \/ \E doc \in JsonDocs \cup {save_data} : load_data(doc)

Spec == Init /\ [][Next]_vars

-----------------------------------------------------------------------------
(* The matcher on its own: every citation and text of the bound *)

MatchAlphabet == {"a", "A", "ß", "."}

MatchStrings == StringsUpTo(MatchAlphabet, MaxMatchLen)

InitMatch ==
    /\ text_passages = SeedPassages
    /\ annotations = SeedAnnotations
    /\ \E citation \in MatchStrings, text \in MatchStrings :
          call = [op |-> "input", args |-> <<citation, text>>, passages |-> Len(SeedPassages)]
    /\ ret = RetNone
    /\ err = NoError
    /\ ops = 0

call_check_citation_in_text ==
    /\ call.op = "input"
    /\ call' = [call EXCEPT !.op = "check_citation_in_text"]
    /\ ret' = RetBool(check_citation_in_text(call.args[1], call.args[2]))
    /\ err' = NoError
    /\ UNCHANGED <<text_passages, annotations, ops>>

NextMatch == call_check_citation_in_text

SpecMatch == InitMatch /\ [][NextMatch]_vars

-----------------------------------------------------------------------------
(* The renderers on a corpus of one passage: every text and every frame of  *)
(* at most two citations of the bound                                       *)

HighlightAlphabet == {"f", "o"}

HighlightTexts ==
    StringsUpTo(HighlightAlphabet, MaxTextLen) \cup {"foo foo foo"}

HighlightCells ==
    StringsUpTo(HighlightAlphabet, MaxCitationLen)
    \cup {"foo", " ", PyNone, NaN}

CitationFrames ==
    {DataFrame(core_columns, <<>>)}
    \cup {DataFrame(core_columns, <<Row(c, "", "")>>) : c \in HighlightCells}
    \cup {DataFrame(core_columns, <<Row(c, "", ""), Row(d, "", "")>>) :
             c \in HighlightCells, d \in HighlightCells}

InitHighlight ==
    /\ \E text \in HighlightTexts : text_passages = <<text>>
    /\ \E df \in CitationFrames : annotations = Put(EmptyDict, IntKey(0), df)
    /\ call = [op |-> "input", args |-> <<>>, passages |-> 1]
    /\ ret = RetNone
    /\ err = NoError
    /\ ops = 0

NextHighlight ==
    \/ \E p \in PassageIndexes : show_passage(p)
    \/ export_word
    \/ export_excel

SpecHighlight == InitHighlight /\ [][NextHighlight]_vars

-----------------------------------------------------------------------------
(* The importers on an uploaded file: every sheet and every document of the *)
(* bound                                                                     *)

MaxSheetRows == 2

MaxParagraphs == 3

sheet_columns == {"Text", "Citation", "Metadata", "Annotation_Text"}

\* The cells a column of an uploaded sheet holds, as pd.read_excel reads them.
SheetCells(c) ==
    IF c = "Text" THEN {"b", "a", NaN}
    ELSE IF c = "Citation" THEN {"c", "d"}
    ELSE IF c = "Metadata" THEN {"m"}
    ELSE {"n"}

SheetRecords(cols) ==
    {r \in [cols -> {"b", "a", "c", "d", "m", "n", NaN}] : \A c \in cols : r[c] \in SheetCells(c)}

\* The sheets of a set of columns: a sheet without columns has no rows.
SheetsOf(cols) ==
    IF cols = {} THEN {<<>>}
    ELSE UNION {[1..k -> SheetRecords(cols)] : k \in 0..MaxSheetRows}

Sheets == UNION {SheetsOf(cols) : cols \in SUBSET sheet_columns}

\* The paragraphs of an uploaded document: passages, one with a footnote marker
\* and one that begins like a footnote, a blank paragraph, and labelled bullets.
DocParagraphs ==
    {Paragraph("Normal", <<Run(t, FALSE)>>) : t \in {"P [1]", "1 note", " "}}
    \cup {Paragraph("List Bullet", <<Run(t, FALSE)>>) :
             t \in {"Citation: c", "Metadata: m", "Annotation: n"}}

Documents == UNION {[1..k -> DocParagraphs] : k \in 0..MaxParagraphs}

Files == {<<"xlsx", sheet>> : sheet \in Sheets} \cup {<<"docx", doc>> : doc \in Documents}

\* A file has been uploaded to a session of one passage.
InitImport ==
    /\ text_passages = <<"Ab">>
    /\ annotations = Put(EmptyDict, IntKey(0), EmptyRowFrame)
    /\ \E file \in Files : call = [op |-> "upload", args |-> <<file>>, passages |-> 1]
    /\ ret = RetNone
    /\ err = NoError
    /\ ops = 0

\* main: the button that loads the document uploaded.
load_word ==
    LET file == call.args[1]
        read == import_word(file[2])
    IN  /\ call.op = "upload"
        /\ file[1] = "docx"
        /\ Calls("import_word", <<file>>)
        /\ text_passages' = read.passages
        /\ annotations' = read.annotations
        /\ ret' = RetNone
        /\ err' = NoError

\* main: the button that loads the sheet uploaded.
load_excel ==
    LET file == call.args[1]
        read == import_excel(file[2])
    IN  /\ call.op = "upload"
        /\ file[1] = "xlsx"
        /\ Calls("import_excel", <<file>>)
        /\ ret' = RetNone
        /\ err' = read.err
        /\ IF read.err # NoError
           THEN UNCHANGED <<text_passages, annotations>>
           ELSE /\ text_passages' = read.passages
                /\ annotations' = read.annotations

NextImport == load_word \/ load_excel

SpecImport == InitImport /\ [][NextImport]_vars

-----------------------------------------------------------------------------
(* Properties of the corpus operations *)

\* Every passage position, and nothing else, is a key of annotations.
DenseKeys ==
    DOMAIN annotations = {IntKey(i) : i \in 0..(Len(text_passages) - 1)}

\* The operations C1 speaks of (the table editor is not among them).
C1Operations ==
    {"add_text_passage", "remove_text_passage", "add_annotation_row",
     "remove_annotation_row", "edit_passage_text", "load_data"}

\* C1: the key set of annotations is exactly {0, ..., len(text_passages) - 1} in
\* every state reached from the seed by the operations of C1Operations, a load_data
\* counting only when it succeeds (returns True).  The seed has dense keys; the
\* claim is that every such operation keeps them dense.
C1_DenseKeysKept ==
    [][(/\ DenseKeys
        /\ call'.op \in C1Operations
        /\ (call'.op = "load_data" => ret' = RetBool(TRUE)))
       => DenseKeys']_vars

\* The step is remove_text_passage(i).
RemovesPassage(i) == call'.op = "remove_text_passage" /\ call'.args[1] = i

\* C2: with N >= 2 passages and 0 <= i < N, remove_text_passage(i) leaves the N - 1
\* other passages in their order, the frame formerly at j + 1 is the frame now at
\* j for j >= i, and the frame at j is unchanged for j < i.
C2_RemoveShiftsDown ==
    [][\A i \in 0..(Len(text_passages) - 1) :
        (Len(text_passages) >= 2 /\ RemovesPassage(i))
        => /\ err' = NoError
           /\ Len(text_passages') = Len(text_passages) - 1
           /\ \A j \in 0..(Len(text_passages) - 2) :
                text_passages'[j + 1] =
                    IF j < i THEN text_passages[j + 1] ELSE text_passages[j + 2]
           /\ \A j \in i..(Len(text_passages) - 2) :
                IntKey(j + 1) \in DOMAIN annotations
                => /\ IntKey(j) \in DOMAIN annotations'
                   /\ annotations'[IntKey(j)] = annotations[IntKey(j + 1)]
           /\ \A j \in 0..(i - 1) :
                IntKey(j) \in DOMAIN annotations
                => /\ IntKey(j) \in DOMAIN annotations'
                   /\ annotations'[IntKey(j)] = annotations[IntKey(j)]]_vars

\* C2's case: the first of three or more passages has been removed, so that two
\* or more frames have moved down.
C2_Witness ==
    /\ call.op = "remove_text_passage"
    /\ call.args[1] = 0
    /\ call.passages >= 3
    /\ err = NoError
    /\ Len(text_passages) = call.passages - 1
    /\ annotations[IntKey(0)] # annotations[IntKey(1)]

\* C3: on a corpus of exactly one passage remove_text_passage(0) changes neither
\* the passage nor the annotations, and raises nothing.
C3_LastPassageKept ==
    [][(Len(text_passages) = 1 /\ RemovesPassage(0))
       => /\ text_passages' = text_passages
          /\ annotations' = annotations
          /\ err' = NoError]_vars

\* C3's case: remove_text_passage(0) has been called on a single passage.
C3_Witness ==
    /\ call.op = "remove_text_passage"
    /\ call.args[1] = 0
    /\ call.passages = 1
    /\ Len(text_passages) = 1

\* C4: with N >= 2 passages, remove_text_passage(index) with index >= N or
\* index < 0 raises nothing and leaves text_passages and annotations as they were.
C4_OutOfRangeIgnored ==
    [][\A index \in PopIndexes :
        (/\ Len(text_passages) >= 2
         /\ (index >= Len(text_passages) \/ index < 0)
         /\ RemovesPassage(index))
        => /\ err' = NoError
           /\ text_passages' = text_passages
           /\ annotations' = annotations]_vars

\* The step is remove_annotation_row(p, row).
RemovesRow(p, row) ==
    call'.op = "remove_annotation_row" /\ call'.args = <<p, row>>

\* C5: remove_annotation_row(p, row) removes exactly the record at row when
\* 0 <= row < len, keeping the others in their order; for any other row it raises
\* nothing and changes no frame.
C5_RemoveRowOrIgnore ==
    [][\A p \in PassageIndexes :
        IntKey(p) \in DOMAIN annotations
        => \A row \in RowIndexes(p) :
            RemovesRow(p, row)
            => LET rows == annotations[IntKey(p)].rows
               IN  /\ err' = NoError
                   /\ DOMAIN annotations' = DOMAIN annotations
                   /\ \A k \in DOMAIN annotations \ {IntKey(p)} :
                        annotations'[k] = annotations[k]
                   /\ IF 0 <= row /\ row < Len(rows)
                      THEN LET rows2 == annotations'[IntKey(p)].rows
                           IN  /\ Len(rows2) = Len(rows) - 1
                               /\ \A j \in 1..Len(rows2) :
                                    rows2[j] = IF j <= row THEN rows[j] ELSE rows[j + 1]
                      ELSE annotations' = annotations]_vars

\* What add_text_passage does to a corpus of N passages: the default text is
\* appended at position N, key N holds a frame of one row of empty cells, and the
\* passages and frames there were are unchanged.
AddAppends ==
    LET n == Len(text_passages)
    IN  /\ Len(text_passages') = n + 1
        /\ text_passages'[n + 1] = NewPassageText
        /\ \A j \in 1..n : text_passages'[j] = text_passages[j]
        /\ DOMAIN annotations' = DOMAIN annotations \cup {IntKey(n)}
        /\ annotations'[IntKey(n)].columns = core_columns
        /\ annotations'[IntKey(n)].rows = <<Row("", "", "")>>
        /\ \A k \in DOMAIN annotations \ {IntKey(n)} : annotations'[k] = annotations[k]
        /\ err' = NoError

\* C6 as stated: add_text_passage appends the passage and its frame as AddAppends
\* says, and returns the new position N.
C6_AddReturnsPosition ==
    [][call'.op = "add_text_passage"
       => (AddAppends /\ ret' = RetInt(Len(text_passages)))]_vars

\* C6, amended: add_text_passage appends the passage and its frame as AddAppends
\* says, and returns nothing (None); the new position is len(text_passages) - 1
\* after the call.
C6_AddReturnsNone ==
    [][call'.op = "add_text_passage"
       => (AddAppends /\ ret' = RetNone
           /\ Len(text_passages') - 1 = Len(text_passages))]_vars

\* C6's case: a passage has been added to a corpus of two or more.
C6_Witness ==
    /\ call.op = "add_text_passage"
    /\ call.passages >= 2
    /\ Len(text_passages) = call.passages + 1
    /\ text_passages[Len(text_passages)] = NewPassageText

\* C7: when the table the editor returns for passage p is written back, the frame
\* stored for p has the three core columns and no other, and its rows are the
\* edited rows, in order, cut down to these columns.
C7_StoredCoreColumnsOnly ==
    [][\A p \in PassageIndexes :
        (call'.op = "edit_annotations" /\ call'.args[1] = p /\ err' = NoError)
        => \A edited \in EditedTables(p) :
            (/\ edit_annotations(p, edited)
             /\ core_columns \subseteq edited.columns)
            => LET stored == annotations'[IntKey(p)]
               IN  /\ stored.columns = core_columns
                   /\ "Found in Text" \notin stored.columns
                   /\ Len(stored.rows) = Len(edited.rows)
                   /\ \A i \in 1..Len(edited.rows) :
                        /\ DOMAIN stored.rows[i] = core_columns
                        /\ \A c \in core_columns : stored.rows[i][c] = edited.rows[i][c]]_vars

\* C7's case: an edited table with an added row (its cells None) has been
\* written back.
C7_Witness ==
    /\ call.op = "edit_annotations"
    /\ err = NoError
    /\ LET k == IntKey(call.args[1])
       IN  /\ k \in DOMAIN annotations
           /\ \E i \in 1..Len(annotations[k].rows) :
                annotations[k].rows[i] = Row(PyNone, PyNone, PyNone)

-----------------------------------------------------------------------------
(* Properties of the matcher *)

\* The lower-cased citation is, character for character, a contiguous part of the
\* lower-cased text.
OccursLowered(c, t) ==
    \E k \in 0..(Len(Lower(t)) - Len(Lower(c))) :
        SubSeq(Lower(t), k + 1, k + Len(Lower(c))) = Lower(c)

\* C8: check_citation_in_text(citation, text) returns False when citation or text
\* is empty, and otherwise True exactly when the lower-cased citation is a
\* contiguous part of the lower-cased text, its characters (a "." too) standing for
\* themselves; it raises nothing and changes neither its arguments nor the corpus.
C8_MatcherContract ==
    [][call'.op = "check_citation_in_text"
       => LET c == call.args[1]
              t == call.args[2]
          IN  /\ ret' = RetBool(c # "" /\ t # "" /\ OccursLowered(c, t))
              /\ err' = NoError
              /\ call'.args = call.args
              /\ text_passages' = text_passages
              /\ annotations' = annotations]_vars

\* C8's case: a citation with an upper-case letter and a "." has been found in a
\* text that has them in lower case.
C8_Witness ==
    /\ call.op = "check_citation_in_text"
    /\ call.args = <<"A.", "a.">>
    /\ ret = RetBool(TRUE)

\* str.upper() of one character: "ß" has the upper-case form "SS".
UpperChar(c) ==
    IF c = "ß" THEN "SS"
    ELSE IF \E i \in 1..Len(LowerLetters) : CharAt(LowerLetters, i) = c
         THEN CharAt(UpperLetters, CHOOSE i \in 1..Len(LowerLetters) : CharAt(LowerLetters, i) = c)
         ELSE c

\* s.upper()
RECURSIVE Upper(_)
Upper(s) == IF s = "" THEN "" ELSE UpperChar(Head(s)) \o Upper(Tail(s))

\* C9: for every citation c and text t, check_citation_in_text(c, t) is
\* check_citation_in_text(c.upper(), t.lower()), and check_citation_in_text("", t)
\* is False.
C9_UpperLowerAlike ==
    call.op = "check_citation_in_text"
    => /\ ret = RetBool(check_citation_in_text(Upper(call.args[1]), Lower(call.args[2])))
       /\ ~check_citation_in_text("", call.args[2])

-----------------------------------------------------------------------------
(* Properties of the renderers *)

\* The citations that are plain text: not empty, not blank, not None, not NaN.
PlainCitations == {c \in HighlightCells : Kept(c) /\ c # NaN}

\* The corpus is one passage with the one citation c.
SingleCitation(c) ==
    /\ Len(text_passages) = 1
    /\ DOMAIN annotations = {IntKey(0)}
    /\ annotations[IntKey(0)].rows = <<Row(c, "", "")>>

\* The text with the citation between open and close where it first begins, if it
\* begins anywhere, and in no other place.
RECURSIVE FirstWrapped(_, _, _, _)
FirstWrapped(text, c, open, close) ==
    IF text = "" THEN ""
    ELSE IF Len(c) <= Len(text) /\ SubSeq(text, 1, Len(c)) = c
         THEN open \o c \o close \o SubSeq(text, Len(c) + 1, Len(text))
         ELSE Head(text) \o FirstWrapped(Tail(text), c, open, close)

\* The text with the citation between open and close wherever it begins, read from
\* left to right, an occurrence beginning where the one before has ended at the
\* earliest.
RECURSIVE EachWrapped(_, _, _, _)
EachWrapped(text, c, open, close) ==
    IF text = "" THEN ""
    ELSE IF Len(c) <= Len(text) /\ SubSeq(text, 1, Len(c)) = c
         THEN open \o c \o close
              \o EachWrapped(SubSeq(text, Len(c) + 1, Len(text)), c, open, close)
         ELSE Head(text) \o EachWrapped(Tail(text), c, open, close)

\* How many such occurrences the text has.
RECURSIVE Occurrences(_, _)
Occurrences(text, c) ==
    IF text = "" THEN 0
    ELSE IF Len(c) <= Len(text) /\ SubSeq(text, 1, Len(c)) = c
         THEN 1 + Occurrences(SubSeq(text, Len(c) + 1, Len(text)), c)
         ELSE Occurrences(Tail(text), c)

IsGreen(run) == run.green

\* The green runs of a paragraph, and the text of all its runs.
GreenRuns(runs) == SelectSeq(runs, IsGreen)

RECURSIVE Joined(_)
Joined(runs) == IF runs = <<>> THEN "" ELSE Head(runs).text \o Joined(Tail(runs))

TwoCitations(c, d) ==
    /\ Len(text_passages) = 1
    /\ DOMAIN annotations = {IntKey(0)}
    /\ annotations[IntKey(0)].rows = <<Row(c, "", ""), Row(d, "", "")>>

\* short is a part of long, and is not all of it.
ProperPart(short, long) == short # long /\ StrIn(short, long)

\* C11: when one citation is a part of another and the longer one occurs in the
\* passage, in either order of the two, the result has the longer one marked as
\* one span, that is between the opening and the closing marker with nothing
\* marked inside: in the passage as shown, in the sheet and, as one green run, in
\* the document.
C11_LongerMarkedAsOneSpan ==
    \A c \in PlainCitations : \A d \in PlainCitations :
        (/\ TwoCitations(c, d)
         /\ ProperPart(c, d) \/ ProperPart(d, c)
         /\ StrIn(IF ProperPart(c, d) THEN d ELSE c, text_passages[1]))
        => LET long == IF ProperPart(c, d) THEN d ELSE c
           IN  /\ call.op = "show_passage"
                  => StrIn(MarkOpen \o long \o MarkClose, ret[2])
               /\ call.op = "export_excel"
                  => StrIn(BoldMark \o long \o BoldMark, ret[2][1].Text)
               /\ call.op = "export_word"
                  => \E k \in 1..Len(ret[2][1].runs) : ret[2][1].runs[k] = Run(long, TRUE)

\* The offsets of text that an occurrence of c at the offset pos covers.
Covered(c, pos) == pos..(pos + Len(c) - 1)

\* The offsets of text where c occurs.
OccurrencesAt(text, c) == {pos \in 0..(Len(text) - Len(c)) : MatchAt(text, c, pos)}

\* a and b are disjoint in text: both occur, no occurrence of one shares a
\* character with an occurrence of the other, and neither is a part of the other.
DisjointIn(text, a, b) ==
    /\ OccurrencesAt(text, a) # {}
    /\ OccurrencesAt(text, b) # {}
    /\ \A i \in OccurrencesAt(text, a) : \A j \in OccurrencesAt(text, b) :
          Covered(a, i) \cap Covered(b, j) = {}
    /\ ~StrIn(a, b)
    /\ ~StrIn(b, a)

\* C12: for two citations that are disjoint in the passage, the passage marked
\* for the citations in the order (a, b) is the passage marked for them in the
\* order (b, a): the same spans are marked, whether or not a and b have one length.
C12_OrderIndependent ==
    \A a \in PlainCitations : \A b \in PlainCitations :
        (/\ TwoCitations(a, b)
         /\ DisjointIn(text_passages[1], a, b)
         /\ call.op = "show_passage")
        => ret = RetStr(highlight_citations(text_passages[1], <<b, a>>))

-----------------------------------------------------------------------------
(* Properties of the JSON adapter *)

\* The (Citation, Metadata, Annotation_Text) tuples of a frame, in the order of
\* its rows.
Tuples(df) ==
    [i \in 1..Len(df.rows) |->
        <<Get(df.rows[i], "Citation"), Get(df.rows[i], "Metadata"),
          Get(df.rows[i], "Annotation_Text")>>]

\* The step is load_data of the text save_data returns in the state it starts in.
LoadsSaved == call'.op = "load_data" /\ call'.args[1] = save_data

\* C13: load_data(save_data()) returns True and leaves the passages as they were
\* and, for every passage position that had a frame, a frame under the int key of
\* the position with the same (Citation, Metadata, Annotation_Text) tuples in the
\* same order.
C13_JsonRoundTrip ==
    [][LoadsSaved
       => /\ ret' = RetBool(TRUE)
          /\ err' = NoError
          /\ text_passages' = text_passages
          /\ \A i \in PassageIndexes :
                IntKey(i) \in DOMAIN annotations
                => /\ IntKey(i) \in DOMAIN annotations'
                   /\ Tuples(annotations'[IntKey(i)]) = Tuples(annotations[IntKey(i)])
          /\ \A k \in DOMAIN annotations' : k[1] = "str" => k \in DOMAIN annotations]_vars

\* C13's case: the saved text of a corpus of two or more passages, one of them
\* with the two annotations of the seed and one with a row the editor added, has
\* been loaded again.
C13_Witness ==
    /\ call.op = "load_data"
    /\ call.args[1] = save_data
    /\ ret = RetBool(TRUE)
    /\ Len(text_passages) >= 2
    /\ IntKey(0) \in DOMAIN annotations
    /\ IntKey(1) \in DOMAIN annotations
    /\ annotations[IntKey(0)].rows = SeedAnnotations[IntKey(0)].rows
    /\ \E i \in 1..Len(annotations[IntKey(1)].rows) :
          annotations[IntKey(1)].rows[i] = Row(PyNone, PyNone, PyNone)

\* The member names of the annotations save_data writes.
SavedNames ==
    {save_data.annotations[2][m][1] : m \in 1..Len(save_data.annotations[2])}

\* The records save_data writes under name.
SavedUnder(name) ==
    LET members == save_data.annotations[2]
    IN  members[CHOOSE m \in 1..Len(members) : members[m][1] = name][2]

\* C14: the annotations save_data writes have one member for every passage
\* position 0..N-1, named by the digits of the position, and no other member; the
\* member of a passage without annotations is the empty list.
C14_ExportEveryPosition ==
    /\ SavedNames = {IntString(p) : p \in PassageIndexes}
    /\ \A p \in PassageIndexes :
          (IntKey(p) \notin DOMAIN annotations \/ annotations[IntKey(p)].rows = <<>>)
          => SavedUnder(IntString(p)) = JsonList(<<>>)

\* The step is load_data of a text that is not JSON.
LoadsInvalid == call'.op = "load_data" /\ call'.args[1].kind = "invalid"

\* C15: load_data of a text that is not JSON returns False, raises nothing and
\* leaves text_passages and annotations as they were.
C15_InvalidJsonRejected ==
    [][LoadsInvalid
       => /\ ret' = RetBool(FALSE)
          /\ err' = NoError
          /\ text_passages' = text_passages
          /\ annotations' = annotations]_vars

\* C15's case: a text that is not JSON has been given to load_data on a corpus
\* that is no longer the seed.
C15_Witness ==
    /\ call.op = "load_data"
    /\ call.args[1] = JsonInvalid
    /\ ret = RetBool(FALSE)
    /\ text_passages # SeedPassages
    /\ annotations # SeedAnnotations

\* C16: a load_data that does not succeed (it returns False or raises) leaves
\* text_passages and annotations as they were.
C16_NoPartialImport ==
    [][(call'.op = "load_data" /\ ret' # RetBool(TRUE))
       => /\ text_passages' = text_passages
          /\ annotations' = annotations]_vars

\* C17: after a load_data that succeeds every stored record has the fields
\* Citation, Metadata, Annotation_Text and no other; without a text_passages
\* member the passages are empty, without an annotations member the annotations.
C17_UnknownFieldsIgnored ==
    [][(call'.op = "load_data" /\ ret' = RetBool(TRUE))
       => /\ \A k \in DOMAIN annotations' :
                \A i \in 1..Len(annotations'[k].rows) :
                    DOMAIN annotations'[k].rows[i] = core_columns
          /\ call'.args[1].text_passages = Absent => text_passages' = <<>>
          /\ call'.args[1].annotations = Absent => annotations' = EmptyDict]_vars

\* C18: in every state every record export_data emits has no field but Citation,
\* Metadata and Annotation_Text.
C18_ExportCoreFieldsOnly ==
    \A k \in DOMAIN export_data.annotations :
        \A i \in 1..Len(export_data.annotations[k]) :
            DOMAIN export_data.annotations[k][i] \subseteq core_columns

-----------------------------------------------------------------------------
(* Properties of the document and spreadsheet adapters *)

\* C19: whatever the corpus, import_word of the document export_word writes for it
\* returns the passages of the corpus, as many, in their order and with their
\* texts, and for every passage position that has a frame a frame with the same
\* (Citation, Metadata, Annotation_Text) tuples in the same order.
C19_WordRoundTrip ==
    ~ExportRaises(text_passages, annotations)
    => LET read == import_word(WordParagraphs(text_passages, annotations, 0))
       IN  /\ read.passages = text_passages
           /\ \A i \in PassageIndexes :
                 IntKey(i) \in DOMAIN annotations
                 => /\ IntKey(i) \in DOMAIN read.annotations
                    /\ Tuples(read.annotations[IntKey(i)]) = Tuples(annotations[IntKey(i)])


\* No two passages have one text.
DistinctTexts ==
    \A i \in PassageIndexes : \A j \in PassageIndexes :
        text_passages[i + 1] = text_passages[j + 1] => i = j

\* The rows export_excel builds have no ** in their Text: the sheet is written as
\* the rows are.
WrittenAsBuilt(rows) == \A k \in 1..Len(rows) : ~StrIn(BoldMark, rows[k].Text)

\* C20: for a corpus of passages with pairwise distinct texts, import_excel of
\* the sheet export_excel writes returns the passage texts as they are and in
\* their order, and for every passage that has annotation rows the same rows in
\* the same order.
C20_ExcelRoundTrip ==
    (/\ DistinctTexts
     /\ ~ExportRaises(text_passages, annotations)
     /\ WrittenAsBuilt(SheetRows(text_passages, annotations, 0)))
    => LET read == import_excel(ReadSheet(SheetRows(text_passages, annotations, 0)))
       IN  /\ read.passages = text_passages
           /\ \A i \in PassageIndexes :
                 (IntKey(i) \in DOMAIN annotations /\ annotations[IntKey(i)].rows # <<>>)
                 => /\ IntKey(i) \in DOMAIN read.annotations
                    /\ Tuples(read.annotations[IntKey(i)]) = Tuples(annotations[IntKey(i)])


\* The number of annotation records of the passage of index i (none when the
\* passage has no frame).
RecordCount(i) ==
    IF IntKey(i) \in DOMAIN annotations THEN Len(annotations[IntKey(i)].rows) ELSE 0

\* The number of sheet rows the passages before the i-th take: one each for a
\* passage without records, else one for each record.
RECURSIVE RowsBefore(_)
RowsBefore(i) ==
    IF i = 0 THEN 0
    ELSE RowsBefore(i - 1) + (IF RecordCount(i - 1) = 0 THEN 1 ELSE RecordCount(i - 1))

-----------------------------------------------------------------------------
(* Properties of the importers *)

\* The distinct Text values of a sheet in the order of the rows they first appear
\* in (a missing Text is no value).
RECURSIVE FirstSeenFrom(_, _, _)
FirstSeenFrom(sheet, k, seen) ==
    IF k > Len(sheet) THEN seen
    ELSE LET t == sheet[k].Text
         IN  FirstSeenFrom(sheet, k + 1,
                           IF t = NaN \/ (\E x \in 1..Len(seen) : seen[x] = t)
                           THEN seen ELSE Append(seen, t))

\* The annotation cells of the rows of a sheet that have the Text t, in row order.
RECURSIVE RowsWith(_, _, _)
RowsWith(sheet, t, k) ==
    IF k > Len(sheet) THEN <<>>
    ELSE (IF sheet[k].Text = t
          THEN << <<sheet[k].Citation, sheet[k].Metadata, sheet[k].Annotation_Text>> >>
          ELSE <<>>)
         \o RowsWith(sheet, t, k + 1)

\* C22: import_excel of a sheet with the column Text returns the distinct Text
\* values in the order they first appear in, each with the rows of its group in
\* row order as its annotations; of a sheet without the column Text it returns a
\* passage for each row, with exactly one annotation.
C22_GroupsInFirstSeenOrder ==
    (call.op = "import_excel" /\ err = NoError)
    => LET sheet == call.args[1][2]
       IN  IF "Text" \in SheetColumns(sheet)
           THEN /\ text_passages = FirstSeenFrom(sheet, 1, <<>>)
                /\ \A i \in PassageIndexes :
                      /\ IntKey(i) \in DOMAIN annotations
                      /\ Tuples(annotations[IntKey(i)])
                             = RowsWith(sheet, text_passages[i + 1], 1)
           ELSE /\ Len(text_passages) = Len(sheet)
                /\ \A i \in PassageIndexes :
                      /\ IntKey(i) \in DOMAIN annotations
                      /\ Len(annotations[IntKey(i)].rows) = 1

\* Every passage position has a frame.
EveryPassageHasFrame ==
    \A i \in PassageIndexes : IntKey(i) \in DOMAIN annotations

\* C23: import_excel of a sheet, whatever columns of Text, Citation, Metadata,
\* Annotation_Text it has, and import_word of a document, whatever its paragraphs,
\* return without raising, and return a corpus in which every passage position
\* has annotations.
C23_ImportNeverRaises ==
    call.op \in {"import_excel", "import_word"}
    => /\ err = NoError
       /\ EveryPassageHasFrame

\* The stripped text of a paragraph; a paragraph that starts a passage (not
\* empty, not bulleted); a bulleted one.
StrippedText(para) == Strip(ParaText(para.runs))

StartsPassage(para) == StrippedText(para) # "" /\ ~StartsWith(para.style, "List")

IsBulleted(para) == StrippedText(para) # "" /\ StartsWith(para.style, "List")

\* The positions of the paragraphs of a document that start a passage, in order,
\* from the k-th paragraph on.
RECURSIVE PassageStarts(_, _)
PassageStarts(doc, k) ==
    IF k > Len(doc) THEN <<>>
    ELSE (IF StartsPassage(doc[k]) THEN <<k>> ELSE <<>>) \o PassageStarts(doc, k + 1)

\* The positions of the bulleted paragraphs that follow the passage that starts at
\* k, up to the next passage.
BulletsAfter(doc, k) ==
    {j \in (k + 1)..Len(doc) :
        /\ IsBulleted(doc[j])
        /\ \A x \in (k + 1)..j : ~StartsPassage(doc[x])}

\* The value a bulleted paragraph is labelled with is in its field of some record
\* of the frame.
ValueKept(para, df) ==
    LET text == StrippedText(para)
        kept(label, field) ==
            StartsWith(text, label)
            => \E r \in 1..Len(df.rows) : df.rows[r][field] = AfterPrefix(text, label)
    IN  /\ kept("Citation:", "Citation")
        /\ kept("Metadata:", "Metadata")
        /\ kept("Annotation:", "Annotation_Text")

\* How many of the paragraphs at the positions are labelled Citation.
CitationLabels(doc, positions) ==
    Cardinality({j \in positions : StartsWith(StrippedText(doc[j]), "Citation:")})

\* A bulleted paragraph comes before every passage of the document.
BulletFirst(doc) ==
    \E j \in 1..Len(doc) :
        IsBulleted(doc[j]) /\ \A x \in 1..j : ~StartsPassage(doc[x])

\* C24: import_word (of a document that does not begin with a bulleted
\* paragraph) returns a passage for every non-empty non-bulleted paragraph,
\* in order; the bulleted paragraphs that follow it make its records, a record
\* for each Citation label, and (when there is a Citation label) the value of
\* every Citation, Metadata and Annotation label among them, whatever their
\* order, is in a record of that passage.
C24_BulletsGroupedInAnyOrder ==
    (call.op = "import_word" /\ ~BulletFirst(call.args[1][2]))
    => LET doc == call.args[1][2]
           starts == PassageStarts(doc, 1)
       IN  /\ text_passages = [i \in 1..Len(starts) |-> StrippedText(doc[starts[i]])]
           /\ \A i \in 1..Len(starts) :
                 LET bullets == BulletsAfter(doc, starts[i])
                 IN  /\ IntKey(i - 1) \in DOMAIN annotations
                     /\ CitationLabels(doc, bullets) > 0
                        => /\ Len(annotations[IntKey(i - 1)].rows)
                                  = CitationLabels(doc, bullets)
                           /\ \A j \in bullets :
                                 ValueKept(doc[j], annotations[IntKey(i - 1)])

\* The stripped texts of the paragraphs of a document that begin with the number
\* n and a blank.
FootnotesOf(doc, n) ==
    {StrippedText(doc[k]) : k \in {x \in 1..Len(doc) : StartsWith(StrippedText(doc[x]), n \o " ")}}

\* C25: when a document with a passage has no bulleted paragraph, import_word
\* gives a passage whose text holds a marker [n], n being the number a paragraph
\* of the document begins with (followed by a blank), a single annotation whose
\* Metadata is the text of such a paragraph.
C25_FootnoteFallback ==
    call.op = "import_word"
    => LET doc == call.args[1][2]
           starts == PassageStarts(doc, 1)
       IN  (\A j \in 1..Len(doc) : ~IsBulleted(doc[j]))
           => \A i \in 1..Len(starts) :
                 LET notes == NotesFrom(StrippedText(doc[starts[i]]), 1)
                 IN  (notes # <<>> /\ FootnotesOf(doc, notes[1]) # {})
                     => /\ IntKey(i - 1) \in DOMAIN annotations
                        /\ Len(annotations[IntKey(i - 1)].rows) = 1
                        /\ annotations[IntKey(i - 1)].rows[1].Metadata
                               \in FootnotesOf(doc, notes[1])

\* C28: the corpus import_word returns has a frame for every position of its
\* passages and for nothing else, and every frame has at least one record; a
\* passage no bulleted paragraph was collected for has the one record of empty
\* cells.
C28_ImportWordDense ==
    call.op = "import_word"
    => LET doc == call.args[1][2]
           starts == PassageStarts(doc, 1)
       IN  /\ DenseKeys
           /\ \A i \in PassageIndexes : Len(annotations[IntKey(i)].rows) >= 1
           /\ \A i \in 1..Len(starts) :
                 (~BulletFirst(doc) /\ BulletsAfter(doc, starts[i]) = {})
                 => annotations[IntKey(i - 1)] = EmptyRowFrame

\* C28's case: a document of two passages has been imported, the first with a
\* record, the second without a bulleted paragraph.
C28_Witness ==
    /\ call.op = "import_word"
    /\ Len(text_passages) = 2
    /\ DenseKeys
    /\ annotations[IntKey(0)].rows = <<Row("c", "", "")>>
    /\ annotations[IntKey(1)] = EmptyRowFrame

-----------------------------------------------------------------------------
(* Properties of the renderers, continued *)

\* A marked text with every opening and every closing marker taken out.
Unmarked(s, open, close) == Replace(Replace(s, open, ""), close, "")

\* C26: whatever the text and the citations, the text a renderer returns is the
\* passage with markers put around characters of the passage and nowhere else:
\* with the markers taken out (mark in the passage as shown, ** in the sheet, the
\* runs of the document joined) it is the passage.
C26_MarkersOnlyInText ==
    err = NoError
    => /\ call.op = "show_passage"
          => Unmarked(ret[2], MarkOpen, MarkClose) = text_passages[1]
       /\ call.op = "export_excel"
          => Unmarked(ret[2][1].Text, BoldMark, BoldMark) = text_passages[1]
       /\ call.op = "export_word"
          => Joined(ret[2][1].runs) = text_passages[1]

-----------------------------------------------------------------------------
(* Properties of the corpus operations, continued *)

\* C27: with N >= 2 passages and 0 <= i < N, remove_text_passage(i) leaves frames
\* under the keys 0 .. N - 2 and under no other key, whatever the keys were: a
\* position whose frame was missing has the frame of one empty record.
C27_RemoveMakesKeysDense ==
    [][\A i \in 0..(Len(text_passages) - 1) :
        (Len(text_passages) >= 2 /\ RemovesPassage(i))
        => /\ DOMAIN annotations' = {IntKey(j) : j \in 0..(Len(text_passages) - 2)}
           /\ \A j \in 0..(Len(text_passages) - 2) :
                 IntKey(IF j < i THEN j ELSE j + 1) \notin DOMAIN annotations
                 => annotations'[IntKey(j)] = EmptyRowFrame]_vars

\* C27's case: the first of the two passages "Zz", "Ab" has been removed, the
\* second having had no frame, and the passage left has the one empty record.
C27_Witness ==
    /\ call.op = "remove_text_passage"
    /\ call.args[1] = 0
    /\ call.passages = 2
    /\ err = NoError
    /\ text_passages = <<"Ab">>
    /\ annotations = Put(EmptyDict, IntKey(0), EmptyRowFrame)

====
